---- MODULE Spec2Model ----
(***************************************************************************)
(* A model of the html crate of browser-rs: the lexer (Lexer::lex,         *)
(* Lexer::validate, Lexer::is_tag_self_closing, get_next_word) and the     *)
(* parser (Parser::new, Parser::parse, Parser::parse_element).             *)
(*                                                                         *)
(* A character is a one-character string, a String a sequence of           *)
(* characters.  The peekable iterator of lex is the count `it` of          *)
(* characters already taken from `input`; peek() is input[it + 1].         *)
(***************************************************************************)
EXTENDS Integers, Sequences, FiniteSets, TLC

VARIABLES
    input,          \* Lexer.input: Vec<char>
    position,       \* Lexer.position
    it,             \* lex: characters taken from `iter`
    is_lexing_tag,  \* lex: local is_lexing_tag
    tokens,         \* lex: local `tokens`
    lex_result,     \* what lex returned: pending, None or Some(tokens)
    v_tokens,       \* validate: the argument `tokens`
    v_i,            \* validate: tokens already visited by the for loop
    tags,           \* validate: the VecDeque `tags`
    verdict,        \* what validate returned: pending, true or false
    parser_tokens,  \* Parser.tokens
    index,          \* parse: the shared cursor `index`
    frames,         \* parse_element: the activations in progress, innermost last
    elements,       \* parse: local `elements`
    constructs,     \* how the input text was composed (description of the input only)
    pc              \* where the program is

vars == <<input, position, it, is_lexing_tag, tokens, lex_result, v_tokens, v_i,
          tags, verdict, parser_tokens, index, frames, elements, constructs, pc>>

lexVars == <<input, position, it, is_lexing_tag, tokens, lex_result>>
validateVars == <<v_tokens, v_i, tags, verdict>>
parseVars == <<parser_tokens, index, frames, elements>>

(***************************************************************************)
(* Bounds of the model.                                                    *)
(***************************************************************************)
MaxRaw == 3
MaxConstructs == 4
MaxTokens == 4

(***************************************************************************)
(* Characters.                                                             *)
(***************************************************************************)
LowerLetters ==
    <<"a", "b", "c", "d", "e", "f", "g", "h", "i", "j", "k", "l", "m",
      "n", "o", "p", "q", "r", "s", "t", "u", "v", "w", "x", "y", "z">>
UpperLetters ==
    <<"A", "B", "C", "D", "E", "F", "G", "H", "I", "J", "K", "L", "M",
      "N", "O", "P", "Q", "R", "S", "T", "U", "V", "W", "X", "Y", "Z">>
Digits == {"0", "1", "2", "3", "4", "5", "6", "7", "8", "9"}

Range(s) == {s[i] : i \in 1..Len(s)}

\* char::is_alphanumeric, on the characters of the model
is_alphanumeric(c) == c \in Range(LowerLetters) \cup Range(UpperLetters) \cup Digits

\* the test `c.is_alphanumeric() || c == '-'` of lex and get_next_word
IsWordChar(c) == is_alphanumeric(c) \/ c = "-"

\* char::to_lowercase, on the characters of the model
to_lowercase_char(c) ==
    IF c \in Range(UpperLetters)
    THEN LowerLetters[CHOOSE i \in 1..Len(UpperLetters) : UpperLetters[i] = c]
    ELSE c

\* str::to_lowercase
to_lowercase(s) == [i \in 1..Len(s) |-> to_lowercase_char(s[i])]

(***************************************************************************)
(* Tokens.                                                                 *)
(***************************************************************************)
TagBegin(n) == [type |-> "TagBegin", name |-> n, value |-> <<>>]
TagEnd(n) == [type |-> "TagEnd", name |-> n, value |-> <<>>]
Content(t) == [type |-> "Content", name |-> <<>>, value |-> t]
Attribute(n, v) == [type |-> "Attribute", name |-> n, value |-> v]
EOF == [type |-> "EOF", name |-> <<>>, value |-> <<>>]

Pending == [status |-> "pending", tokens |-> <<>>]
None == [status |-> "None", tokens |-> <<>>]
Some(ts) == [status |-> "Some", tokens |-> ts]

(***************************************************************************)
(* The inner loops of the lexer.  Each takes the text and the number of    *)
(* characters already taken, and returns what it read and the new count.   *)
(***************************************************************************)
RECURSIVE WordLoop(_, _, _)
WordLoop(s, i, value) ==
    IF i < Len(s) /\ IsWordChar(s[i + 1])
    THEN WordLoop(s, i + 1, Append(value, s[i + 1]))
    ELSE [value |-> value, it |-> i]

\* get_next_word(iter)
get_next_word(s, i) == WordLoop(s, i, <<>>)

\* QuoteLoop that keeps the opening '"' in the value
RECURSIVE QuoteLoop_KeepsQuote(_, _, _, _)
QuoteLoop_KeepsQuote(s, i, quote_opened, attr_value) ==
    IF i >= Len(s) THEN [ok |-> FALSE, value |-> attr_value, it |-> i]
    ELSE IF s[i + 1] = "\""
         THEN IF quote_opened
              THEN [ok |-> TRUE, value |-> attr_value, it |-> i + 1]
              ELSE QuoteLoop_KeepsQuote(s, i + 1, TRUE, Append(attr_value, s[i + 1]))
    ELSE IF s[i + 1] = "\n" THEN [ok |-> FALSE, value |-> attr_value, it |-> i + 1]
    ELSE QuoteLoop_KeepsQuote(s, i + 1, quote_opened, Append(attr_value, s[i + 1]))

\* QuoteLoop with the line break taken as a character of the value
RECURSIVE QuoteLoop_KeepsLineBreak(_, _, _, _)
QuoteLoop_KeepsLineBreak(s, i, quote_opened, attr_value) ==
    IF i >= Len(s) THEN [ok |-> FALSE, value |-> attr_value, it |-> i]
    ELSE IF s[i + 1] = "\""
         THEN IF quote_opened
              THEN [ok |-> TRUE, value |-> attr_value, it |-> i + 1]
              ELSE QuoteLoop_KeepsLineBreak(s, i + 1, TRUE, attr_value)
    ELSE QuoteLoop_KeepsLineBreak(s, i + 1, quote_opened, Append(attr_value, s[i + 1]))

\* the quoted-value loop: `ok` is FALSE where lex returns None
RECURSIVE QuoteLoop(_, _, _, _)
QuoteLoop(s, i, quote_opened, attr_value) ==
    IF i >= Len(s) THEN [ok |-> FALSE, value |-> attr_value, it |-> i]
    ELSE IF s[i + 1] = "\""
         THEN IF quote_opened
              THEN [ok |-> TRUE, value |-> attr_value, it |-> i + 1]
              ELSE QuoteLoop(s, i + 1, TRUE, attr_value)
    ELSE IF s[i + 1] = "\n" THEN [ok |-> FALSE, value |-> attr_value, it |-> i + 1]
    ELSE QuoteLoop(s, i + 1, quote_opened, Append(attr_value, s[i + 1]))

\* the attribute value, read after the attribute name
AttrValue(s, i) ==
    IF i < Len(s) /\ s[i + 1] = "="
    THEN QuoteLoop(s, i + 1, FALSE, <<>>)
    ELSE [ok |-> TRUE, value |-> <<>>, it |-> i]

\* ContentLoop that stops at whitespace as well
RECURSIVE ContentLoop_StopsAtSpace(_, _, _)
ContentLoop_StopsAtSpace(s, i, value) ==
    IF i < Len(s) /\ s[i + 1] \notin {"<", " ", "\n"}
    THEN ContentLoop_StopsAtSpace(s, i + 1, Append(value, s[i + 1]))
    ELSE [value |-> value, it |-> i]

\* ContentLoop that stops at '>' as well
RECURSIVE ContentLoop_StopsAtGt(_, _, _)
ContentLoop_StopsAtGt(s, i, value) ==
    IF i < Len(s) /\ s[i + 1] \notin {"<", ">"}
    THEN ContentLoop_StopsAtGt(s, i + 1, Append(value, s[i + 1]))
    ELSE [value |-> value, it |-> i]

\* the content loop: up to, not including, the next '<'
RECURSIVE ContentLoop(_, _, _)
ContentLoop(s, i, value) ==
    IF i < Len(s) /\ s[i + 1] # "<"
    THEN ContentLoop(s, i + 1, Append(value, s[i + 1]))
    ELSE [value |-> value, it |-> i]

(***************************************************************************)
(* Lexer::lex, one iteration of its outer loop per step.                   *)
(***************************************************************************)
\* LexEOF that leaves the loop without pushing EOF
LexEOF_NoPush ==
    /\ pc = "lex"
    /\ it >= Len(input)
    /\ lex_result' = Some(tokens)
    /\ pc' = "lexed"
    /\ UNCHANGED <<input, position, it, is_lexing_tag, tokens, validateVars, parseVars,
                   constructs>>

\* iter.next() is None: push EOF, leave the loop, return Some(tokens)
LexEOF ==
    /\ pc = "lex"
    /\ it >= Len(input)
    /\ tokens' = Append(tokens, EOF)
    /\ lex_result' = Some(tokens')
    /\ pc' = "lexed"
    /\ UNCHANGED <<input, position, it, is_lexing_tag, validateVars, parseVars, constructs>>

\* '<' with no character after it: nothing is pushed
LexOpenAtEnd ==
    /\ pc = "lex"
    /\ it < Len(input)
    /\ input[it + 1] = "<"
    /\ it + 1 >= Len(input)
    /\ it' = it + 1
    /\ position' = position + 1
    /\ UNCHANGED <<input, is_lexing_tag, tokens, lex_result, validateVars, parseVars,
                   constructs, pc>>

\* LexTagEnd that enters inside-tag mode, as an opening tag does
LexTagEnd_EntersTag ==
    /\ pc = "lex"
    /\ it + 1 < Len(input)
    /\ input[it + 1] = "<"
    /\ input[it + 2] = "/"
    /\ LET w == get_next_word(input, it + 2)
       IN /\ tokens' = Append(tokens, TagEnd(w.value))
          /\ it' = w.it
    /\ is_lexing_tag' = TRUE
    /\ position' = position + 1
    /\ UNCHANGED <<input, lex_result, validateVars, parseVars, constructs, pc>>

\* '<' followed by '/': a closing tag
LexTagEnd ==
    /\ pc = "lex"
    /\ it + 1 < Len(input)
    /\ input[it + 1] = "<"
    /\ input[it + 2] = "/"
    /\ LET w == get_next_word(input, it + 2)
       IN /\ tokens' = Append(tokens, TagEnd(w.value))
          /\ it' = w.it
    /\ position' = position + 1
    /\ UNCHANGED <<input, is_lexing_tag, lex_result, validateVars, parseVars,
                   constructs, pc>>

\* '<' followed by anything else ('!' is skipped): an opening tag
LexTagBegin ==
    /\ pc = "lex"
    /\ it + 1 < Len(input)
    /\ input[it + 1] = "<"
    /\ input[it + 2] # "/"
    /\ LET from == IF input[it + 2] = "!" THEN it + 2 ELSE it + 1
           w == get_next_word(input, from)
       IN /\ tokens' = Append(tokens, TagBegin(w.value))
          /\ it' = w.it
    /\ is_lexing_tag' = TRUE
    /\ position' = position + 1
    /\ UNCHANGED <<input, lex_result, validateVars, parseVars, constructs, pc>>

\* '>'
LexTagClose ==
    /\ pc = "lex"
    /\ it < Len(input)
    /\ input[it + 1] = ">"
    /\ is_lexing_tag' = FALSE
    /\ it' = it + 1
    /\ position' = position + 1
    /\ UNCHANGED <<input, tokens, lex_result, validateVars, parseVars, constructs, pc>>

\* a word character inside a tag: an attribute, whose value was read to its end
LexAttribute ==
    /\ pc = "lex"
    /\ it < Len(input)
    /\ IsWordChar(input[it + 1])
    /\ is_lexing_tag
    /\ LET w == WordLoop(input, it + 1, <<input[it + 1]>>)
           a == AttrValue(input, w.it)
       IN /\ a.ok
          /\ tokens' = Append(tokens, Attribute(w.value, a.value))
          /\ it' = a.it
    /\ position' = position + 1
    /\ UNCHANGED <<input, is_lexing_tag, lex_result, validateVars, parseVars,
                   constructs, pc>>

\* a word character inside a tag, the value cut by a line break or by the end of
\* the input: return None
LexAttributeFail ==
    /\ pc = "lex"
    /\ it < Len(input)
    /\ IsWordChar(input[it + 1])
    /\ is_lexing_tag
    /\ LET w == WordLoop(input, it + 1, <<input[it + 1]>>)
           a == AttrValue(input, w.it)
       IN /\ ~a.ok
          /\ it' = a.it
    /\ position' = position + 1
    /\ lex_result' = None
    /\ pc' = "lexfail"
    /\ UNCHANGED <<input, is_lexing_tag, tokens, validateVars, parseVars, constructs>>

\* a word character outside a tag: content
LexContent ==
    /\ pc = "lex"
    /\ it < Len(input)
    /\ IsWordChar(input[it + 1])
    /\ ~is_lexing_tag
    /\ LET c == ContentLoop(input, it + 1, <<input[it + 1]>>)
       IN /\ tokens' = Append(tokens, Content(c.value))
          /\ it' = c.it
    /\ position' = position + 1
    /\ UNCHANGED <<input, is_lexing_tag, lex_result, validateVars, parseVars,
                   constructs, pc>>

\* any other character
LexOther ==
    /\ pc = "lex"
    /\ it < Len(input)
    /\ input[it + 1] \notin {"<", ">"}
    /\ ~IsWordChar(input[it + 1])
    /\ it' = it + 1
    /\ position' = position + 1
    /\ UNCHANGED <<input, is_lexing_tag, tokens, lex_result, validateVars, parseVars,
                   constructs, pc>>

NextLex ==
    \/ LexEOF
    \/ LexOpenAtEnd
    \/ LexTagEnd
    \/ LexTagBegin
    \/ LexTagClose
    \/ LexAttribute
    \/ LexAttributeFail
    \/ LexContent
    \/ LexOther

(***************************************************************************)
(* Lexer::is_tag_self_closing.                                             *)
(***************************************************************************)
SelfClosingTags ==
    { <<"d", "o", "c", "t", "y", "p", "e">>,
      <<"b", "r">>,
      <<"h", "r">>,
      <<"i", "m", "g">>,
      <<"i", "n", "p", "u", "t">>,
      <<"m", "e", "t", "a">>,
      <<"l", "i", "n", "k">> }

\* is_tag_self_closing without the to_lowercase
is_tag_self_closing_CaseSensitive(tag) == tag \in SelfClosingTags

is_tag_self_closing(tag) == to_lowercase(tag) \in SelfClosingTags

(***************************************************************************)
(* Lexer::validate, one token of its for loop per step.                    *)
(***************************************************************************)
\* push_front in place of push_back
push_back_Front(deque, tag) == <<tag>> \o deque

\* tags.push_back(tag)
push_back(deque, tag) == Append(deque, tag)

\* the deque after tags.pop_back()
pop_back(deque) == SubSeq(deque, 1, Len(deque) - 1)

\* the comparison with the case ignored
TagsDiffer_IgnoringCase(last_tag, tag) == to_lowercase(last_tag) # to_lowercase(tag)

\* `last_tag != tag`, on two Strings
TagsDiffer(last_tag, tag) == last_tag # tag

VToken == v_tokens[v_i + 1]

\* TagBegin(tag) if !is_tag_self_closing(tag)
ValidateTagBegin ==
    /\ pc = "validate"
    /\ v_i < Len(v_tokens)
    /\ VToken.type = "TagBegin"
    /\ ~is_tag_self_closing(VToken.name)
    /\ tags' = push_back(tags, VToken.name)
    /\ v_i' = v_i + 1
    /\ UNCHANGED <<lexVars, v_tokens, verdict, parseVars, constructs, pc>>

\* TagEnd(tag), pop_back gives a tag with the same name
ValidateTagEndMatch ==
    /\ pc = "validate"
    /\ v_i < Len(v_tokens)
    /\ VToken.type = "TagEnd"
    /\ tags # <<>>
    /\ ~TagsDiffer(tags[Len(tags)], VToken.name)
    /\ tags' = pop_back(tags)
    /\ v_i' = v_i + 1
    /\ UNCHANGED <<lexVars, v_tokens, verdict, parseVars, constructs, pc>>

\* TagEnd(tag), pop_back gives a tag with another name: return false
ValidateTagEndMismatch ==
    /\ pc = "validate"
    /\ v_i < Len(v_tokens)
    /\ VToken.type = "TagEnd"
    /\ tags # <<>>
    /\ TagsDiffer(tags[Len(tags)], VToken.name)
    /\ tags' = pop_back(tags)
    /\ verdict' = "false"
    /\ pc' = "validated"
    /\ UNCHANGED <<lexVars, v_tokens, v_i, parseVars, constructs>>

\* ValidateTagEndEmpty that rejects a TagEnd when nothing is open
ValidateTagEndEmpty_Rejects ==
    /\ pc = "validate"
    /\ v_i < Len(v_tokens)
    /\ v_tokens[v_i + 1].type = "TagEnd"
    /\ tags = <<>>
    /\ verdict' = "false"
    /\ pc' = "validated"
    /\ UNCHANGED <<lexVars, v_tokens, v_i, tags, parseVars, constructs>>

\* TagEnd(tag), pop_back gives None
ValidateTagEndEmpty ==
    /\ pc = "validate"
    /\ v_i < Len(v_tokens)
    /\ VToken.type = "TagEnd"
    /\ tags = <<>>
    /\ v_i' = v_i + 1
    /\ UNCHANGED <<lexVars, v_tokens, tags, verdict, parseVars, constructs, pc>>

\* any other token, a self-closing TagBegin among them
ValidateOther ==
    /\ pc = "validate"
    /\ v_i < Len(v_tokens)
    /\ VToken.type # "TagEnd"
    /\ VToken.type = "TagBegin" => is_tag_self_closing(VToken.name)
    /\ v_i' = v_i + 1
    /\ UNCHANGED <<lexVars, v_tokens, tags, verdict, parseVars, constructs, pc>>

\* the for loop is over: return true
ValidateReturn ==
    /\ pc = "validate"
    /\ v_i >= Len(v_tokens)
    /\ verdict' = "true"
    /\ pc' = "validated"
    /\ UNCHANGED <<lexVars, v_tokens, v_i, tags, parseVars, constructs>>

NextValidate ==
    \/ ValidateTagBegin
    \/ ValidateTagEndMatch
    \/ ValidateTagEndMismatch
    \/ ValidateTagEndEmpty
    \/ ValidateOther
    \/ ValidateReturn

(***************************************************************************)
(* Nodes.                                                                  *)
(***************************************************************************)
Element(tag, attributes, children) ==
    [kind |-> "Element", tag |-> tag, text |-> <<>>, attributes |-> attributes,
     children |-> children]
Text(t) ==
    [kind |-> "Text", tag |-> <<>>, text |-> t, attributes |-> <<>>, children |-> <<>>]

(***************************************************************************)
(* Parser::new: lex().unwrap(), assert!(validate(&tokens)), Self { tokens } *)
(***************************************************************************)
\* lex() returned None: unwrap panics
ParserNewUnwrapNone ==
    /\ pc = "lexfail"
    /\ pc' = "panic"
    /\ UNCHANGED <<lexVars, validateVars, parseVars, constructs>>

\* lex() returned Some(tokens): call Lexer::validate(&tokens)
ParserNewCallValidate ==
    /\ pc = "lexed"
    /\ v_tokens' = lex_result.tokens
    /\ v_i' = 0
    /\ tags' = <<>>
    /\ verdict' = "pending"
    /\ pc' = "validate"
    /\ UNCHANGED <<lexVars, parseVars, constructs>>

\* ParserNewAssertFails with the assertion compiled out
ParserNewAssertFails_NoAssert ==
    /\ pc = "validated"
    /\ verdict = "false"
    /\ parser_tokens' = v_tokens
    /\ index' = 0
    /\ frames' = <<>>
    /\ elements' = <<>>
    /\ pc' = "parse"
    /\ UNCHANGED <<lexVars, validateVars, constructs>>

\* validate returned false: assert! panics
ParserNewAssertFails ==
    /\ pc = "validated"
    /\ verdict = "false"
    /\ pc' = "panic"
    /\ UNCHANGED <<lexVars, validateVars, parseVars, constructs>>

\* validate returned true: Self { tokens }, on which parse() is then called
ParserNewReturn ==
    /\ pc = "validated"
    /\ verdict = "true"
    /\ parser_tokens' = v_tokens
    /\ index' = 0
    /\ frames' = <<>>
    /\ elements' = <<>>
    /\ pc' = "parse"
    /\ UNCHANGED <<lexVars, validateVars, constructs>>

(***************************************************************************)
(* Parser::parse and Parser::parse_element, one loop iteration per step.   *)
(* `index` counts from 0, as in the source; frames holds the locals of     *)
(* every parse_element call in progress.                                   *)
(***************************************************************************)
PToken == parser_tokens[index + 1]

\* the while condition is false, or the token is EOF: the loop is left
LoopLeft == index >= Len(parser_tokens) \/ PToken.type = "EOF"

\* the locals of a parse_element call that has just started
NewFrame(tag) == [tag |-> tag, attributes |-> <<>>, children |-> <<>>]

Top == frames[Len(frames)]

\* frames with the innermost call's locals replaced
WithTop(f) == [frames EXCEPT ![Len(frames)] = f]

\* the innermost parse_element call returns its Element to its caller, which
\* pushes it: parse_element onto its children, parse onto elements
ReturnElement ==
    LET node == Element(Top.tag, Top.attributes, Top.children)
    IN IF Len(frames) = 1
       THEN /\ elements' = Append(elements, node)
            /\ frames' = <<>>
       ELSE /\ frames' =
                   [SubSeq(frames, 1, Len(frames) - 1) EXCEPT
                       ![Len(frames) - 1].children = Append(@, node)]
            /\ elements' = elements

\* parse: TagBegin(tag) => elements.push(self.parse_element(tag, &mut index))
ParseTagBegin ==
    /\ pc = "parse"
    /\ frames = <<>>
    /\ index < Len(parser_tokens)
    /\ PToken.type = "TagBegin"
    /\ frames' = <<NewFrame(PToken.name)>>
    /\ index' = index + 1
    /\ UNCHANGED <<lexVars, validateVars, parser_tokens, elements, constructs, pc>>

\* ParseSkip that keeps a top-level Content as a Text node
ParseSkip_KeepsText ==
    /\ pc = "parse"
    /\ frames = <<>>
    /\ index < Len(parser_tokens)
    /\ parser_tokens[index + 1].type \in {"TagEnd", "Content", "Attribute"}
    /\ elements' = IF parser_tokens[index + 1].type = "Content"
                   THEN Append(elements, Text(parser_tokens[index + 1].value))
                   ELSE elements
    /\ index' = index + 1
    /\ UNCHANGED <<lexVars, validateVars, parser_tokens, frames, constructs, pc>>

\* parse: _ => index += 1
ParseSkip ==
    /\ pc = "parse"
    /\ frames = <<>>
    /\ index < Len(parser_tokens)
    /\ PToken.type \in {"TagEnd", "Content", "Attribute"}
    /\ index' = index + 1
    /\ UNCHANGED <<lexVars, validateVars, parser_tokens, frames, elements, constructs, pc>>

\* parse: EOF => break, or the loop ends: Some(elements)
ParseReturn ==
    /\ pc = "parse"
    /\ frames = <<>>
    /\ LoopLeft
    /\ pc' = "done"
    /\ UNCHANGED <<lexVars, validateVars, parseVars, constructs>>

\* ParseElementChild whose callee does not step over its TagBegin
ParseElementChild_NoAdvance ==
    /\ pc = "parse"
    /\ frames # <<>>
    /\ index < Len(parser_tokens)
    /\ parser_tokens[index + 1].type = "TagBegin"
    /\ ~is_tag_self_closing(frames[Len(frames)].tag)
    /\ frames' = Append(frames, NewFrame(parser_tokens[index + 1].name))
    /\ UNCHANGED <<lexVars, validateVars, parser_tokens, index, elements, constructs, pc>>

\* parse_element: TagBegin(child_tag) in an element that is not self-closing
ParseElementChild ==
    /\ pc = "parse"
    /\ frames # <<>>
    /\ index < Len(parser_tokens)
    /\ PToken.type = "TagBegin"
    /\ ~is_tag_self_closing(Top.tag)
    /\ frames' = Append(frames, NewFrame(PToken.name))
    /\ index' = index + 1
    /\ UNCHANGED <<lexVars, validateVars, parser_tokens, elements, constructs, pc>>

\* ParseElementSelfClosing without the self-closing test: the child is parsed
ParseElementSelfClosing_AddsChild ==
    /\ pc = "parse"
    /\ frames # <<>>
    /\ index < Len(parser_tokens)
    /\ parser_tokens[index + 1].type = "TagBegin"
    /\ is_tag_self_closing(frames[Len(frames)].tag)
    /\ frames' = Append(frames, NewFrame(parser_tokens[index + 1].name))
    /\ index' = index + 1
    /\ UNCHANGED <<lexVars, validateVars, parser_tokens, elements, constructs, pc>>

\* ParseElementSelfClosing that steps over the TagBegin before it breaks
ParseElementSelfClosing_Consumes ==
    /\ pc = "parse"
    /\ frames # <<>>
    /\ index < Len(parser_tokens)
    /\ parser_tokens[index + 1].type = "TagBegin"
    /\ is_tag_self_closing(frames[Len(frames)].tag)
    /\ index' = index + 1
    /\ ReturnElement
    /\ UNCHANGED <<lexVars, validateVars, parser_tokens, constructs, pc>>

\* parse_element: TagBegin(child_tag) in a self-closing element: break
ParseElementSelfClosing ==
    /\ pc = "parse"
    /\ frames # <<>>
    /\ index < Len(parser_tokens)
    /\ PToken.type = "TagBegin"
    /\ is_tag_self_closing(Top.tag)
    /\ ReturnElement
    /\ UNCHANGED <<lexVars, validateVars, parser_tokens, index, constructs, pc>>

\* parse_element: TagEnd(_) => index += 1, break
ParseElementTagEnd ==
    /\ pc = "parse"
    /\ frames # <<>>
    /\ index < Len(parser_tokens)
    /\ PToken.type = "TagEnd"
    /\ index' = index + 1
    /\ ReturnElement
    /\ UNCHANGED <<lexVars, validateVars, parser_tokens, constructs, pc>>

\* the attribute list with the pair put in place of an earlier one of that name
PutAttribute(attributes, pair) ==
    IF \E k \in 1..Len(attributes) : attributes[k][1] = pair[1]
    THEN [k \in 1..Len(attributes) |->
             IF attributes[k][1] = pair[1] THEN pair ELSE attributes[k]]
    ELSE Append(attributes, pair)

\* ParseElementAttribute that keeps one attribute per name
ParseElementAttribute_OnePerName ==
    /\ pc = "parse"
    /\ frames # <<>>
    /\ index < Len(parser_tokens)
    /\ parser_tokens[index + 1].type = "Attribute"
    /\ frames' = [frames EXCEPT ![Len(frames)].attributes =
                     PutAttribute(@, <<parser_tokens[index + 1].name,
                                      parser_tokens[index + 1].value>>)]
    /\ index' = index + 1
    /\ UNCHANGED <<lexVars, validateVars, parser_tokens, elements, constructs, pc>>

\* parse_element: Attribute(attribute)
ParseElementAttribute ==
    /\ pc = "parse"
    /\ frames # <<>>
    /\ index < Len(parser_tokens)
    /\ PToken.type = "Attribute"
    /\ frames' = WithTop([Top EXCEPT !.attributes = Append(@, <<PToken.name, PToken.value>>)])
    /\ index' = index + 1
    /\ UNCHANGED <<lexVars, validateVars, parser_tokens, elements, constructs, pc>>

\* parse_element: Content(content)
ParseElementContent ==
    /\ pc = "parse"
    /\ frames # <<>>
    /\ index < Len(parser_tokens)
    /\ PToken.type = "Content"
    /\ frames' = WithTop([Top EXCEPT !.children = Append(@, Text(PToken.value))])
    /\ index' = index + 1
    /\ UNCHANGED <<lexVars, validateVars, parser_tokens, elements, constructs, pc>>

\* parse_element: EOF => break, or the loop ends
ParseElementEOF ==
    /\ pc = "parse"
    /\ frames # <<>>
    /\ LoopLeft
    /\ ReturnElement
    /\ UNCHANGED <<lexVars, validateVars, parser_tokens, index, constructs, pc>>

NextParser ==
    \/ ParserNewUnwrapNone
    \/ ParserNewCallValidate
    \/ ParserNewAssertFails
    \/ ParserNewReturn
    \/ ParseTagBegin
    \/ ParseSkip
    \/ ParseReturn
    \/ ParseElementChild
    \/ ParseElementSelfClosing
    \/ ParseElementTagEnd
    \/ ParseElementAttribute
    \/ ParseElementContent
    \/ ParseElementEOF

Next == NextLex \/ NextValidate \/ NextParser

(***************************************************************************)
(* Input texts.                                                            *)
(***************************************************************************)
RECURSIVE SeqsUpTo(_, _)
SeqsUpTo(S, n) ==
    IF n = 0 THEN {<<>>}
    ELSE LET shorter == SeqsUpTo(S, n - 1)
         IN shorter \cup {Append(s, x) : s \in {t \in shorter : Len(t) = n - 1}, x \in S}

LexAlphabet == {"<", ">", "/", "!", "=", "\"", "\n", " ", "a", "-"}

\* texts that bring the lexer into each of its modes before the free characters
LexPrefixes ==
    { <<>>,
      <<"<", "a", " ">>,
      <<"<", "a", " ", "a", "=">>,
      <<"<", "a", " ", "a", "=", "\"">>,
      <<"<", "a", ">">> }

LexInputs == {p \o s : p \in LexPrefixes, s \in SeqsUpTo(LexAlphabet, MaxRaw)}

InitCommon ==
    /\ position = 0
    /\ it = 0
    /\ is_lexing_tag = FALSE
    /\ tokens = <<>>
    /\ lex_result = Pending
    /\ v_tokens = <<>>
    /\ v_i = 0
    /\ tags = <<>>
    /\ verdict = "pending"
    /\ parser_tokens = <<>>
    /\ index = 0
    /\ frames = <<>>
    /\ elements = <<>>

\* Lexer::new(input) followed by lex()
InitLex ==
    /\ input \in LexInputs
    /\ constructs = <<>>
    /\ pc = "lex"
    /\ InitCommon

SpecLex == InitLex /\ [][NextLex]_vars

(***************************************************************************)
(* Token sequences handed to Lexer::validate directly, as the crate's      *)
(* tests do.                                                               *)
(***************************************************************************)
NameA == <<"a">>
NameUpperA == <<"A">>
NameBr == <<"b", "r">>

ValidateNames == {NameA, NameUpperA, NameBr}

ValidateTokens ==
    {TagBegin(n) : n \in ValidateNames} \cup {TagEnd(n) : n \in ValidateNames}
        \cup {Content(<<"t">>), EOF}

\* every spelling of a name in upper and lower case
RECURSIVE CaseVariants(_)
CaseVariants(n) ==
    IF n = <<>> THEN {<<>>}
    ELSE LET i == CHOOSE k \in 1..Len(LowerLetters) : LowerLetters[k] = n[1]
         IN {<<c>> \o r : c \in {LowerLetters[i], UpperLetters[i]}, r \in CaseVariants(Tail(n))}

\* names near the self-closing ones: one character less, one character more
NearNames ==
    UNION {{Tail(n), SubSeq(n, 1, Len(n) - 1), Append(n, "s"), <<"x">> \o n, Append(n, "-")}
           : n \in SelfClosingTags}

ProbeNames ==
    UNION {CaseVariants(n) : n \in SelfClosingTags} \cup NearNames
        \cup {<<>>, <<"h", "t", "m", "l">>, <<"d", "i", "v">>, <<"p">>, <<"h", "1">>}

ValidateInputs ==
    SeqsUpTo(ValidateTokens, MaxTokens) \cup {<<TagBegin(n), EOF>> : n \in ProbeNames}

\* Lexer::validate(&tokens)
InitValidate ==
    /\ input = <<>>
    /\ constructs = <<>>
    /\ position = 0
    /\ it = 0
    /\ is_lexing_tag = FALSE
    /\ tokens = <<>>
    /\ lex_result = Pending
    /\ v_tokens \in ValidateInputs
    /\ v_i = 0
    /\ tags = <<>>
    /\ verdict = "pending"
    /\ parser_tokens = <<>>
    /\ index = 0
    /\ frames = <<>>
    /\ elements = <<>>
    /\ pc = "validate"

SpecValidate == InitValidate /\ [][NextValidate]_vars

(***************************************************************************)
(* Input texts composed of markup constructs: opening tags with their      *)
(* attributes, closing tags and text runs, each followed by optional       *)
(* whitespace (tags only).                                                 *)
(***************************************************************************)
NameB == <<"b">>
NameX == <<"x">>

OpenTag(n, attrs, ws) == [kind |-> "open", name |-> n, attrs |-> attrs, text |-> <<>>, ws |-> ws]
CloseTag(n, ws) == [kind |-> "close", name |-> n, attrs |-> <<>>, text |-> <<>>, ws |-> ws]
TextRun(t) == [kind |-> "text", name |-> <<>>, attrs |-> <<>>, text |-> t, ws |-> <<>>]
\* characters that belong to no construct
Stray(t) == [kind |-> "stray", name |-> <<>>, attrs |-> <<>>, text |-> t, ws |-> <<>>]

\* the attribute with a line break in its value
BrokenAttr == <<NameX, <<"\n">>>>

Constructs ==
    { OpenTag(NameA, <<>>, <<>>),
      OpenTag(NameBr, <<>>, <<>>),
      OpenTag(NameB, << <<NameX, <<"v", " ", "w">>>>, <<NameX, <<>>>> >>, <<" ">>),
      OpenTag(NameA, <<BrokenAttr>>, <<>>),
      CloseTag(NameA, <<>>),
      CloseTag(NameB, <<"\n", " ">>),
      CloseTag(NameBr, <<>>),
      Stray(<<"<">>),
      TextRun(<<"t">>),
      TextRun(<<"t", ">", " ">>) }

RECURSIVE RenderAttrs(_)
RenderAttrs(attrs) ==
    IF attrs = <<>> THEN <<>>
    ELSE <<" ">> \o attrs[1][1] \o <<"=", "\"">> \o attrs[1][2] \o <<"\"">>
             \o RenderAttrs(Tail(attrs))

Render(c) ==
    CASE c.kind = "open" -> <<"<">> \o c.name \o RenderAttrs(c.attrs) \o <<">">> \o c.ws
      [] c.kind = "close" -> <<"<", "/">> \o c.name \o <<">">> \o c.ws
      [] c.kind \in {"text", "stray"} -> c.text

RECURSIVE RenderAll(_)
RenderAll(cs) == IF cs = <<>> THEN <<>> ELSE Render(cs[1]) \o RenderAll(Tail(cs))

\* Parser::new(input) followed by parse()
Init ==
    /\ constructs \in SeqsUpTo(Constructs, MaxConstructs)
    /\ input = RenderAll(constructs)
    /\ pc = "lex"
    /\ InitCommon

Spec == Init /\ [][Next]_vars

(***************************************************************************)
(* Properties of Lexer::lex.                                               *)
(***************************************************************************)
RECURSIVE ExpectedAttributes(_)
ExpectedAttributes(attrs) ==
    IF attrs = <<>> THEN <<>>
    ELSE <<Attribute(attrs[1][1], attrs[1][2])>> \o ExpectedAttributes(Tail(attrs))

\* one token per construct, in source order
RECURSIVE ExpectedTokens(_)
ExpectedTokens(cs) ==
    IF cs = <<>> THEN <<>>
    ELSE (CASE cs[1].kind = "open" ->
                   <<TagBegin(cs[1].name)>> \o ExpectedAttributes(cs[1].attrs)
            [] cs[1].kind = "close" -> <<TagEnd(cs[1].name)>>
            [] cs[1].kind = "text" -> <<Content(cs[1].text)>>
            [] OTHER -> <<>>)
         \o ExpectedTokens(Tail(cs))

\* the input is built from opening tags, closing tags and text runs only, and
\* no text run follows another one directly (the two would be one run)
BuiltFromConstructs ==
    /\ constructs # <<>>
    /\ \A i \in 1..Len(constructs) : constructs[i].kind \in {"open", "close", "text"}
    /\ \A i \in 1..(Len(constructs) - 1) :
           ~(constructs[i].kind = "text" /\ constructs[i + 1].kind = "text")

NoLineBreakInValues ==
    \A i \in 1..Len(constructs) : \A j \in 1..Len(constructs[i].attrs) :
        "\n" \notin Range(constructs[i].attrs[j][2])

\* C1, as stated: for any input built from opening tags (optionally with
\* double-quoted attributes), closing tags and text runs, lex returns exactly one
\* token per construct in source order, followed by EOF.
C1_OneTokenPerConstruct ==
    (lex_result.status # "pending" /\ BuiltFromConstructs)
        => lex_result = Some(ExpectedTokens(constructs) \o <<EOF>>)

\* C1, amended: the same, for inputs whose attribute values hold no line break.
C1_OneTokenPerConstructNoLineBreak ==
    (lex_result.status # "pending" /\ BuiltFromConstructs /\ NoLineBreakInValues)
        => lex_result = Some(ExpectedTokens(constructs) \o <<EOF>>)

\* an opening tag with attributes and whitespace after it, a text run and a
\* closing tag followed by whitespace have been lexed
C1_Witness ==
    /\ lex_result.status = "Some"
    /\ BuiltFromConstructs
    /\ NoLineBreakInValues
    /\ \E i \in 1..Len(constructs) : constructs[i].attrs # <<>> /\ constructs[i].ws # <<>>
    /\ \E i \in 1..Len(constructs) : constructs[i].kind = "text" /\ Len(constructs[i].text) > 1
    /\ \E i \in 1..Len(constructs) : constructs[i].kind = "close" /\ constructs[i].ws # <<>>
    /\ Len(lex_result.tokens) = 6

\* the lexer is about to read, inside a tag, an attribute name that is directly
\* followed by '=' and whose value is cut: between that '=' and the first line
\* break after it (or the end of the input) there are fewer than two '"'
CutAttributeAhead ==
    /\ it < Len(input)
    /\ is_lexing_tag
    /\ IsWordChar(input[it + 1])
    /\ \E e \in (it + 1)..Len(input) :
          /\ \A k \in (it + 1)..e : IsWordChar(input[k])
          /\ e < Len(input)
          /\ input[e + 1] = "="
          /\ LET breaks == {k \in (e + 2)..Len(input) : input[k] = "\n"}
                 stop == IF breaks = {} THEN Len(input) + 1
                         ELSE CHOOSE k \in breaks : \A m \in breaks : k <= m
             IN Cardinality({k \in (e + 2)..(stop - 1) : input[k] = "\""}) < 2

\* C2: lex returns None, with no tokens, exactly when an attribute name read
\* inside a tag is directly followed by '=' and a line break or the end of the
\* input comes before the second '"' after it; otherwise it goes on and returns
\* the tokens it collected.
C2_NoneIffCutAttribute ==
    [][pc = "lex" =>
          /\ (pc' = "lexfail") <=> CutAttributeAhead
          /\ pc' = "lexfail" => lex_result' = None
          /\ pc' = "lexed" => lex_result' = Some(tokens') /\ it = Len(input)
          /\ pc' \in {"lex", "lexed", "lexfail"}]_vars

\* lex returned None at a line break, after it had collected tokens
C2_Witness ==
    /\ pc = "lexfail"
    /\ lex_result = None
    /\ input[it] = "\n"
    /\ tokens # <<>>

\* C3: a token sequence returned by lex holds exactly one EOF, as its last
\* element.
C3_OneEOFLast ==
    lex_result.status = "Some" =>
        LET ts == lex_result.tokens
        IN /\ ts # <<>>
           /\ ts[Len(ts)] = EOF
           /\ \A k \in 1..(Len(ts) - 1) : ts[k].type # "EOF"

\* lex returned several tokens for an input that ends with a lone '<'
C3_Witness ==
    /\ lex_result.status = "Some"
    /\ Len(lex_result.tokens) >= 3
    /\ input[Len(input)] = "<"

(***************************************************************************)
(* Properties of Lexer::validate and Lexer::is_tag_self_closing.           *)
(***************************************************************************)
IsTag(t) == t.type \in {"TagBegin", "TagEnd"}

\* properly balanced TagBegin(t)/TagEnd(t) pairs, in sequence or nested
RECURSIVE IsBalanced(_)
IsBalanced(ts) ==
    \/ ts = <<>>
    \/ /\ ts[1].type = "TagBegin"
       /\ \E k \in 2..Len(ts) :
             /\ ts[k] = TagEnd(ts[1].name)
             /\ IsBalanced(SubSeq(ts, 2, k - 1))
             /\ IsBalanced(SubSeq(ts, k + 1, Len(ts)))

\* ts[i] and ts[j] are the two tags of one pair of a balanced sequence
IsPair(ts, i, j) ==
    /\ i < j
    /\ ts[i].type = "TagBegin"
    /\ ts[j] = TagEnd(ts[i].name)
    /\ IsBalanced(SubSeq(ts, i + 1, j - 1))

\* the seven self-closing names, as the specification lists them
ClaimedSelfClosing ==
    { <<"d", "o", "c", "t", "y", "p", "e">>, <<"b", "r">>, <<"h", "r">>, <<"i", "m", "g">>,
      <<"i", "n", "p", "u", "t">>, <<"m", "e", "t", "a">>, <<"l", "i", "n", "k">> }

SameLetter(c, d) ==
    \/ c = d
    \/ \E k \in 1..Len(LowerLetters) : {c, d} = {LowerLetters[k], UpperLetters[k]}

EqualIgnoringCase(n, m) ==
    /\ Len(n) = Len(m)
    /\ \A k \in 1..Len(n) : SameLetter(n[k], m[k])

SelfClosingName(n) == \E m \in ClaimedSelfClosing : EqualIgnoringCase(n, m)

\* no pair with a self-closing name lies inside a pair with another name
NoSelfClosingPairInside(ts) ==
    \A i, j, k \in 1..Len(ts) :
        (i < k /\ k < j /\ IsPair(ts, i, j) /\ ~SelfClosingName(ts[i].name))
            => ~(ts[k].type = "TagEnd" /\ SelfClosingName(ts[k].name))

\* C4, as stated: a sequence of properly balanced TagBegin/TagEnd pairs, nested
\* to any depth, with any tag names, validates true.
C4_BalancedValidates ==
    (pc = "validated" /\ IsBalanced(v_tokens)) => verdict = "true"

\* C4, amended: a sequence of properly balanced TagBegin/TagEnd pairs validates
\* true when no pair with a self-closing name lies inside a pair whose name is
\* not self-closing.
C4_BalancedValidatesNoSelfClosingInside ==
    (pc = "validated" /\ IsBalanced(v_tokens) /\ NoSelfClosingPairInside(v_tokens))
        => verdict = "true"

\* two nested pairs with different names have been validated
C4_Witness ==
    /\ pc = "validated"
    /\ Len(v_tokens) = 4
    /\ IsBalanced(v_tokens)
    /\ IsPair(v_tokens, 1, 4)
    /\ v_tokens[1].name # v_tokens[2].name
    /\ ~SelfClosingName(v_tokens[2].name)
    /\ verdict = "true"

\* the non-self-closing tags still open after the first k tokens, innermost
\* last: a TagEnd closes the innermost one
RECURSIVE OpenTags(_, _)
OpenTags(ts, k) ==
    IF k = 0 THEN <<>>
    ELSE LET open == OpenTags(ts, k - 1)
         IN IF ts[k].type = "TagBegin" /\ ~SelfClosingName(ts[k].name)
            THEN Append(open, ts[k].name)
            ELSE IF ts[k].type = "TagEnd" /\ open # <<>>
                 THEN SubSeq(open, 1, Len(open) - 1)
                 ELSE open

\* token k is a TagEnd whose name is not that of the innermost open tag
MismatchAt(ts, k) ==
    /\ ts[k].type = "TagEnd"
    /\ OpenTags(ts, k - 1) # <<>>
    /\ OpenTags(ts, k - 1)[Len(OpenTags(ts, k - 1))] # ts[k].name

\* C5: validate returns false whenever a TagEnd comes while a non-self-closing
\* tag is open and its name is not string-equal to the innermost open one.
C5_MismatchRejected ==
    (pc = "validated" /\ \E k \in 1..Len(v_tokens) : MismatchAt(v_tokens, k))
        => verdict = "false"

\* a closing tag that differs from the open tag in case alone was rejected
C5_Witness ==
    /\ pc = "validated"
    /\ verdict = "false"
    /\ \E k \in 1..Len(v_tokens) :
          /\ MismatchAt(v_tokens, k)
          /\ EqualIgnoringCase(v_tokens[k].name, OpenTags(v_tokens, k - 1)[Len(OpenTags(v_tokens, k - 1))])

\* C6: validate returns true only if every non-self-closing TagBegin is matched,
\* innermost first, by a later TagEnd of the same name; a sequence that ends
\* with such a tag still open is rejected.
C6_TrueOnlyIfAllMatched ==
    (pc = "validated" /\ verdict = "true")
        => /\ \A k \in 1..Len(v_tokens) : ~MismatchAt(v_tokens, k)
           /\ OpenTags(v_tokens, Len(v_tokens)) = <<>>

\* C7: a sequence with no non-self-closing TagBegin validates true, whatever
\* TagEnd tokens it holds.
C7_NothingOpenValidates ==
    (pc = "validated"
        /\ \A k \in 1..Len(v_tokens) :
               v_tokens[k].type = "TagBegin" => SelfClosingName(v_tokens[k].name))
        => verdict = "true"

\* a sequence with a self-closing TagBegin and two TagEnd tokens validated true
C7_Witness ==
    /\ pc = "validated"
    /\ verdict = "true"
    /\ \E k \in 1..Len(v_tokens) : v_tokens[k].type = "TagBegin"
    /\ Cardinality({k \in 1..Len(v_tokens) : v_tokens[k].type = "TagEnd"}) >= 2
    /\ \A k \in 1..Len(v_tokens) :
           v_tokens[k].type = "TagBegin" => SelfClosingName(v_tokens[k].name)

\* C8: is_tag_self_closing(tag) is true exactly when tag is, case ignored, one
\* of doctype, br, hr, img, input, meta, link.  validate pushes the first
\* TagBegin exactly when is_tag_self_closing is false of its name.
C8_SelfClosingExactly ==
    (pc = "validate" /\ v_i = 1 /\ v_tokens[1].type = "TagBegin")
        => ((tags = <<>>) <=> SelfClosingName(v_tokens[1].name))

\* a self-closing name in mixed case was classified
C8_Witness ==
    /\ pc = "validate"
    /\ v_i = 1
    /\ v_tokens[1] = TagBegin(<<"D", "o", "C", "t", "Y", "p", "E">>)
    /\ tags = <<>>

(***************************************************************************)
(* Properties of Parser::new and Parser::parse.                            *)
(***************************************************************************)
\* C9: Parser::new panics exactly when lex fails or validate returns false on
\* the lexed tokens; otherwise it returns a Parser that holds the whole lexed
\* token sequence.
C9_ParserNewGate ==
    /\ pc = "panic" => (lex_result = None \/ verdict = "false")
    /\ pc \in {"parse", "done"} =>
          /\ lex_result.status = "Some"
          /\ verdict = "true"
          /\ parser_tokens = lex_result.tokens
    /\ verdict # "pending" => v_tokens = lex_result.tokens
    /\ pc \notin {"parse", "done"} => parser_tokens = <<>>
    /\ pc \in {"lexfail", "lexed", "validated"} => ENABLED NextParser

\* Parser::new panicked on tokens that lexed well and did not validate
C9_Witness ==
    /\ pc = "panic"
    /\ BuiltFromConstructs
    /\ lex_result.status = "Some"
    /\ Len(lex_result.tokens) >= 4
    /\ verdict = "false"

\* every TagEnd matches the innermost open non-self-closing tag
ClosersMatch(ts) ==
    \A k \in 1..Len(ts) :
        ts[k].type = "TagEnd" =>
            /\ OpenTags(ts, k - 1) # <<>>
            /\ OpenTags(ts, k - 1)[Len(OpenTags(ts, k - 1))] = ts[k].name

\* the forest that mirrors the nesting of the source: `open` holds the elements
\* not yet closed, innermost last; a self-closing element has no closing tag
\* and no children
Attach(open, forest, node) ==
    IF open = <<>> THEN [open |-> open, forest |-> Append(forest, node)]
    ELSE [open |-> [open EXCEPT ![Len(open)].children = Append(@, node)], forest |-> forest]

RECURSIVE Mirror(_, _, _, _)
Mirror(ts, k, open, forest) ==
    IF k > Len(ts) \/ ts[k].type = "EOF"
    THEN IF open = <<>> THEN forest
         ELSE LET r == Attach(SubSeq(open, 1, Len(open) - 1), forest, open[Len(open)])
              IN Mirror(ts, k, r.open, r.forest)
    ELSE IF ts[k].type = "TagBegin"
         THEN IF SelfClosingName(ts[k].name)
              THEN LET r == Attach(open, forest, Element(ts[k].name, <<>>, <<>>))
                   IN Mirror(ts, k + 1, r.open, r.forest)
              ELSE Mirror(ts, k + 1, Append(open, Element(ts[k].name, <<>>, <<>>)), forest)
    ELSE IF ts[k].type = "TagEnd" /\ open # <<>>
         THEN LET r == Attach(SubSeq(open, 1, Len(open) - 1), forest, open[Len(open)])
              IN Mirror(ts, k + 1, r.open, r.forest)
    ELSE IF ts[k].type = "Content" /\ open # <<>>
         THEN Mirror(ts, k + 1, [open EXCEPT ![Len(open)].children = Append(@, Text(ts[k].value))],
                     forest)
    ELSE Mirror(ts, k + 1, open, forest)

\* a node without its attributes
RECURSIVE Shape(_)
Shape(node) ==
    [node EXCEPT !.attributes = <<>>,
                 !.children = [i \in 1..Len(node.children) |-> Shape(node.children[i])]]

ShapeAll(nodes) == [i \in 1..Len(nodes) |-> Shape(nodes[i])]

\* C10: for an input accepted by Parser::new in which each closing tag matches
\* the innermost open non-self-closing tag, the forest returned by parse mirrors
\* the nesting of the source.
C10_ForestMirrorsNesting ==
    (pc = "done" /\ ClosersMatch(parser_tokens))
        => ShapeAll(elements) = Mirror(parser_tokens, 1, <<>>, <<>>)

\* the Element nodes of a forest, in document order
RECURSIVE PreorderElements(_)
PreorderElements(nodes) ==
    IF nodes = <<>> THEN <<>>
    ELSE (IF nodes[1].kind = "Element"
          THEN <<nodes[1]>> \o PreorderElements(nodes[1].children)
          ELSE <<>>)
         \o PreorderElements(Tail(nodes))

\* the Attribute tokens that follow token k directly, as (name, value) pairs
RECURSIVE AttributeRun(_, _)
AttributeRun(ts, k) ==
    IF k < Len(ts) /\ ts[k + 1].type = "Attribute"
    THEN <<<<ts[k + 1].name, ts[k + 1].value>>>> \o AttributeRun(ts, k + 1)
    ELSE <<>>

\* the subsequence of the tokens of one type
RECURSIVE TokensOfType(_, _)
TokensOfType(ts, type) ==
    IF ts = <<>> THEN <<>>
    ELSE (IF ts[1].type = type THEN <<ts[1]>> ELSE <<>>) \o TokensOfType(Tail(ts), type)

\* the positions of the TagBegin tokens, in token order
RECURSIVE TagBeginPositions(_, _)
TagBeginPositions(ts, k) ==
    IF k > Len(ts) THEN <<>>
    ELSE (IF ts[k].type = "TagBegin" THEN <<k>> ELSE <<>>) \o TagBeginPositions(ts, k + 1)

\* C11: the attribute list of each Element holds the Attribute tokens consumed
\* at its level, in token order, duplicates of a name kept: the Elements in
\* document order carry the runs of Attribute tokens that follow the TagBegin
\* tokens, in token order.
C11_AttributesInTokenOrder ==
    pc = "done" =>
        LET es == PreorderElements(elements)
            bs == TagBeginPositions(parser_tokens, 1)
        IN /\ Len(es) = Len(bs)
           /\ \A i \in 1..Len(es) : es[i].attributes = AttributeRun(parser_tokens, bs[i])

\* an Element was returned with two attributes of the same name
C11_Witness ==
    /\ pc = "done"
    /\ \E i \in 1..Len(PreorderElements(elements)) :
          LET a == PreorderElements(elements)[i].attributes
          IN Len(a) = 2 /\ a[1][1] = a[2][1] /\ a[1][2] # a[2][2]

\* the nodes of a forest, Elements and Texts, at every depth
RECURSIVE AllNodes(_)
AllNodes(nodes) ==
    IF nodes = <<>> THEN <<>>
    ELSE <<nodes[1]>> \o AllNodes(nodes[1].children) \o AllNodes(Tail(nodes))

\* the elements under construction and the finished ones
NodesSoFar ==
    AllNodes(elements)
        \o AllNodes([i \in 1..Len(frames) |->
                        Element(frames[i].tag, frames[i].attributes, frames[i].children)])

\* C12: an Element whose tag is self-closing has no Element child; the TagBegin
\* met while it is built is left where it is for the enclosing caller.
C12_SelfClosingHasNoElementChild ==
    /\ \A i \in 1..Len(NodesSoFar) :
          (NodesSoFar[i].kind = "Element" /\ SelfClosingName(NodesSoFar[i].tag))
              => \A j \in 1..Len(NodesSoFar[i].children) :
                     NodesSoFar[i].children[j].kind # "Element"
    /\ pc = "done" =>
          Len(PreorderElements(elements)) = Len(TokensOfType(parser_tokens, "TagBegin"))

\* a self-closing Element was returned, and the tag opened after it became the
\* next node of the same parent
C12_Witness ==
    /\ pc = "done"
    /\ BuiltFromConstructs
    /\ \E i \in 1..Len(AllNodes(elements)) :
          LET n == AllNodes(elements)[i]
          IN /\ n.kind = "Element"
             /\ Len(n.children) = 2
             /\ n.children[1].kind = "Element"
             /\ SelfClosingName(n.children[1].tag)
             /\ n.children[2].kind = "Element"

\* C13: every Element whose tag is self-closing has an empty children list.
C13_SelfClosingHasNoChildren ==
    pc = "done" =>
        \A i \in 1..Len(AllNodes(elements)) :
            (AllNodes(elements)[i].kind = "Element"
                /\ SelfClosingName(AllNodes(elements)[i].tag))
                => AllNodes(elements)[i].children = <<>>

\* C14: at top level parse skips Content, Attribute and TagEnd tokens without
\* producing a node and stops at EOF: every top-level node is an Element, and
\* parse always returns a forest.
C14_TopLevelNodesAreElements ==
    /\ \A i \in 1..Len(elements) : elements[i].kind = "Element"
    /\ (pc = "parse" /\ frames = <<>> /\ index < Len(parser_tokens))
          => (PToken.type \in {"Content", "Attribute", "TagEnd"} => ENABLED ParseSkip)
    /\ pc = "parse" => ENABLED NextParser
    /\ pc = "done" => (frames = <<>> /\ parser_tokens[index + 1] = EOF)

\* parse returned a forest for tokens that begin with a Content and hold a
\* TagEnd at top level
C14_Witness ==
    /\ pc = "done"
    /\ parser_tokens[1].type = "Content"
    /\ elements # <<>>
    /\ Len(elements) + Len(TokensOfType(parser_tokens, "Content"))
           + Len(TokensOfType(parser_tokens, "TagEnd")) >= 4
    /\ \A i \in 1..Len(elements) : elements[i].children = <<>>

\* the names of the tokens of a sequence
NamesOf(ts) == [i \in 1..Len(ts) |-> ts[i].name]

\* C18: parse creates exactly one Element per TagBegin token, and the Element
\* tags in document order are the TagBegin names in token order.
C18_OneElementPerTagBegin ==
    pc = "done" =>
        [i \in 1..Len(PreorderElements(elements)) |-> PreorderElements(elements)[i].tag]
            = NamesOf(TokensOfType(parser_tokens, "TagBegin"))

\* a forest with a nested Element, a self-closing Element and a later top-level
\* Element was returned
C18_Witness ==
    /\ pc = "done"
    /\ BuiltFromConstructs
    /\ Len(elements) >= 2
    /\ \E i \in 1..Len(elements) : PreorderElements(elements[i].children) # <<>>
    /\ \E i \in 1..Len(PreorderElements(elements)) :
          SelfClosingName(PreorderElements(elements)[i].tag)

\* what is left to do: the tokens not yet passed, and the calls not yet returned
ParseMeasure == 2 * (Len(parser_tokens) - index) + Len(frames)

\* C19: parse terminates: the cursor never decreases and never exceeds the
\* length of the sequence, and every loop iteration advances the cursor or ends
\* its loop.
C19_CursorAdvancesOrLoopEnds ==
    [][pc = "parse" =>
          /\ index' >= index
          /\ index' <= Len(parser_tokens)
          /\ \/ index' > index
             \/ Len(frames') < Len(frames)
             \/ pc' = "done"
          /\ pc' = "parse" => ParseMeasure' < ParseMeasure]_vars

\* a self-closing element is stopped by a TagBegin, which it does not consume
C19_Witness ==
    /\ pc = "parse"
    /\ BuiltFromConstructs
    /\ ENABLED ParseElementSelfClosing
    /\ Len(frames) >= 2

(***************************************************************************)
(* Properties of the tokens of Lexer::lex, for every input text.           *)
(***************************************************************************)
\* C15: every TagBegin and TagEnd token of lex carries a name that is a
\* non-empty run of alphanumeric or hyphen characters, for every input text.
C15_TagNamesNonEmpty ==
    \A k \in 1..Len(tokens) :
        tokens[k].type \in {"TagBegin", "TagEnd"}
            => /\ tokens[k].name # <<>>
               /\ \A i \in 1..Len(tokens[k].name) : IsWordChar(tokens[k].name[i])

\* the step of lex pushes a token of the type
Pushes(type) ==
    /\ pc = "lex"
    /\ Len(tokens') = Len(tokens) + 1
    /\ tokens'[Len(tokens')].type = type

\* C16: a Content token is the run of input characters from an alphanumeric or
\* hyphen character read outside inside-tag mode up to, not including, the next
\* '<' or the end of the input: non-empty, without '<', nothing trimmed.
C16_ContentIsMaximalRun ==
    [][Pushes("Content") =>
          LET v == tokens'[Len(tokens')].value
          IN /\ ~is_lexing_tag
             /\ IsWordChar(input[it + 1])
             /\ v = SubSeq(input, it + 1, it')
             /\ v # <<>>
             /\ "<" \notin Range(v)
             /\ it' = Len(input) \/ input[it' + 1] = "<"]_vars

\* a Content token that holds a '>' and ends with whitespace was returned
C16_Witness ==
    /\ lex_result.status = "Some"
    /\ \E k \in 1..Len(lex_result.tokens) :
          LET t == lex_result.tokens[k]
          IN /\ t.type = "Content"
             /\ ">" \in Range(t.value)
             /\ t.value[Len(t.value)] \in {" ", "\n"}

\* C17: the value of an Attribute token is empty when its name is not directly
\* followed by '=', and otherwise holds neither a '"' nor a line break.
C17_AttributeValue ==
    [][Pushes("Attribute") =>
          LET t == tokens'[Len(tokens')]
              e == it + Len(t.name)
          IN /\ t.name = SubSeq(input, it + 1, e)
             /\ IF e < Len(input) /\ input[e + 1] = "="
                THEN "\"" \notin Range(t.value) /\ "\n" \notin Range(t.value)
                ELSE t.value = <<>>]_vars

\* an attribute with a quoted value and, last, one without '=' were returned
C17_Witness ==
    /\ lex_result.status = "Some"
    /\ Len(lex_result.tokens) >= 3
    /\ \E k \in 1..Len(lex_result.tokens) :
          lex_result.tokens[k].type = "Attribute" /\ lex_result.tokens[k].value # <<>>
    /\ lex_result.tokens[Len(lex_result.tokens) - 1].type = "Attribute"
    /\ lex_result.tokens[Len(lex_result.tokens) - 1].value = <<>>
    /\ IsWordChar(input[Len(input)])

\* token k comes after a TagBegin with no Content in between
AfterTagBegin(ts, k) ==
    \E j \in 1..(k - 1) :
        /\ ts[j].type = "TagBegin"
        /\ \A m \in (j + 1)..(k - 1) : ts[m].type # "Content"

\* C20: each Attribute token has a TagBegin earlier in the sequence with no
\* Content between the two, and no Content is pushed in inside-tag mode: while
\* the lexer is inside a tag, the tokens end with a TagBegin followed by no
\* Content.
C20_AttributeFollowsTagBegin ==
    /\ \A k \in 1..Len(tokens) : tokens[k].type = "Attribute" => AfterTagBegin(tokens, k)
    /\ is_lexing_tag => AfterTagBegin(tokens, Len(tokens) + 1)

\* an Attribute after a TagBegin, and a Content after the tag was closed
C20_Witness ==
    /\ lex_result.status = "Some"
    /\ \E k \in 2..Len(tokens) :
          /\ tokens[k].type = "Attribute"
          /\ tokens[k - 1].type = "TagBegin"
          /\ \E m \in (k + 1)..Len(tokens) : tokens[m].type = "Content"

====
